---- MODULE Spec2Model ----
(***************************************************************************)
(* Model of queue-mongodb: the Queue class (send, receive, remove, purge,  *)
(* count, close) over one shared MongoDB client and collection.  Time is   *)
(* counted in whole units; a lease of n seconds is n units.                *)
(* The collection is a set of documents { _id, type, proc, runs, data };   *)
(* receive() is modelled step by step (findOneAndUpdate, the deleteOne of  *)
(* an exhausted item, the return) so that calls of several consumers       *)
(* interleave; every store call may throw.  What send, remove, purge and   *)
(* count return is an operator of the state they are called in.            *)
(***************************************************************************)
EXTENDS Integers, Sequences, FiniteSets, TLC

VARIABLES
  now,          \* the wall clock read by new Date()
  qCollection,  \* the documents of the queue collection
  ids,          \* the ObjectIds generated so far
  pc,           \* position of each consumer inside receive()
  item,         \* receive(): the qItem to return (null until found)
  budget,       \* history: runs each document was inserted with
  hist,         \* history: the claims (findOneAndUpdate results) per document
  removed,      \* history: the documents remove(qItem) was answered for
  purged,       \* history: the documents purge() deleted
  sent,         \* history: the qItem send() returned for each document
  dbClient,     \* the shared MongoClient: "new", "connected" or "closed"
  handle        \* the module holds a collection handle (let qCollection is set)

vars == <<now, qCollection, ids, pc, item, budget, hist, removed, purged,
          sent, dbClient, handle>>

----------------------------------------------------------------------------
\* Bounds of the model.
MaxTime == 3
MaxItems == 2
NumConsumers == 2
MaxArgItems == 1
MaxBlockTime == 4

Consumers == 1..NumConsumers
Ids == 1..MaxItems

\* null / undefined and a present value
None == <<>>
Some(x) == <<x>>

Max(a, b) == IF a >= b THEN a ELSE b

----------------------------------------------------------------------------
\* The queue instances of the test suite.
queueDefault == [type |-> "DEFAULT", maxTries |-> 3, processingTime |-> 300]

queueTest == [type |-> "test", maxTries |-> 2, processingTime |-> 1]

Queues == {queueDefault, queueTest}

\* Arguments the callers pass.
DelayArgs == {[kind |-> "undefined", v |-> 0],
              [kind |-> "number", v |-> 1],
              [kind |-> "Date", v |-> 2]}

MaxTriesArgs == {None, Some(1)}

\* The wider arguments of the specification ArgSpec.  A payload is named by
\* its JavaScript literal; "test" is the string of the test suite.
Payloads == {"undefined", "null", "test", "51", "{a:1,b:2,c:3}"}

ArgDelays == DelayArgs \cup {[kind |-> "number", v |-> 0],
                             [kind |-> "number", v |-> -1],
                             [kind |-> "Date", v |-> 0]}

ArgMaxTries == MaxTriesArgs \cup {Some(0), Some(2), Some(-1)}

ArgProcessingTimes == {None, Some(0), Some(2), Some(-1)}

----------------------------------------------------------------------------
\* Variant: the validator without runs: { minimum: 0 }.
ValidatesNoMinimum(doc) == doc.type # ""

\* The collection's $jsonSchema validator.
Validates(doc) == doc.type # "" /\ doc.runs >= 0

\* ObjectId.getTimestamp()
getTimestamp(id) == id.ts

\* Variant: a Date is added to the current time like a number of seconds.
SendProcRelative(delayUntil) ==
  IF delayUntil.kind = "undefined" THEN now ELSE now + delayUntil.v

\* send(): the start date/time
SendProc(delayUntil) ==
  IF delayUntil.kind = "Date" THEN delayUntil.v
  ELSE IF delayUntil.kind = "number" THEN now + delayUntil.v
  ELSE now

\* send(data = null, ...): the default parameter replaces undefined
SendData(data) == IF data = "undefined" THEN "null" ELSE data

\* Variant: the queue's maxTries whatever is passed.
SendRunsDefault(q, maxTries) == q.maxTries

\* send(): maxTries || this.maxTries
SendRuns(q, maxTries) ==
  IF maxTries # None /\ maxTries[1] # 0 THEN maxTries[1] ELSE q.maxTries

\* Variant: without Math.max(1, ...).
LeaseNoClamp(q, processingTime) ==
  IF processingTime # None /\ processingTime[1] # 0
  THEN processingTime[1] ELSE q.processingTime

\* receive(): Math.max(1, processingTime || this.processingTime)
Lease(q, processingTime) ==
  Max(1, IF processingTime # None /\ processingTime[1] # 0
         THEN processingTime[1] ELSE q.processingTime)

\* Variant: the filter with $gt for $lt.
MatchesGt(doc, type, t) == doc.type = type /\ doc.proc > t

\* Variant: the filter without proc.
MatchesAll(doc, type, t) == doc.type = type

\* Variant: the filter without type.
MatchesAnyType(doc, type, t) == doc.proc < t

\* receive(): the filter of findOneAndUpdate
Matches(doc, type, t) == doc.type = type /\ doc.proc < t

\* Variant: without sort { proc: 1 }.
FirstMatchesUnsorted(type, t) == {d \in qCollection : Matches(d, type, t)}

\* receive(): sort { proc: 1 }, the documents findOneAndUpdate may pick
FirstMatches(type, t) ==
  {d \in qCollection : /\ Matches(d, type, t)
                       /\ \A e \in qCollection : Matches(e, type, t) => d.proc <= e.proc}

\* Variant: the update without $inc: { runs: -1 }.
UpdatedNoInc(doc, t, lease) == [doc EXCEPT !.proc = t + lease]

\* Variant: the update without $set: { proc }.
UpdatedNoSet(doc, t, lease) == [doc EXCEPT !.runs = doc.runs - 1]

\* Variant: the update with the lease taken as milliseconds.
UpdatedNoScale(doc, t, lease) == [doc EXCEPT !.proc = t, !.runs = doc.runs - 1]

\* receive(): the update of findOneAndUpdate
Updated(doc, t, lease) == [doc EXCEPT !.proc = t + lease, !.runs = doc.runs - 1]

\* Variant: sent taken from proc.
QItemSentProc(doc) == [_id |-> doc._id, sent |-> doc.proc, runs |-> doc.runs, data |-> doc.data]

\* The qItem built from a document: { _id, sent, runs, data }
QItem(doc) == [_id |-> doc._id, sent |-> getTimestamp(doc._id), runs |-> doc.runs, data |-> doc.data]

\* Variant: the test v.runs < 0.
NoMoreRunsBelowZero(v) == v.runs < 0

\* receive(): !v.runs, no more runs permitted
NoMoreRuns(v) == v.runs = 0

\* Variant: only the documents that are visible are counted.
CountVisible(type) == Cardinality({d \in qCollection : d.type = type /\ d.proc <= now})

\* countDocuments({ type })
CountDocuments(type) == Cardinality({d \in qCollection : d.type = type})

\* A document with this _id is stored.
InStore(id) == \E d \in qCollection : d._id = id

----------------------------------------------------------------------------
Init ==
  /\ now = 0
  /\ qCollection = {}
  /\ ids = {}
  /\ pc = [p \in Consumers |-> "idle"]
  /\ item = [p \in Consumers |-> None]
  /\ budget = [n \in Ids |-> 0]
  /\ hist = [n \in Ids |-> <<>>]
  /\ removed = {}
  /\ purged = {}
  /\ sent = [n \in Ids |-> None]
  /\ dbClient = "new"
  /\ handle = FALSE

\* dbConnect(): the cached handle is returned; otherwise the client connects
\* and the handle is kept.  A call that throws may have thrown in connect(),
\* between connect() and the assignment, or in the store call after it.
dbConnect(fault) ==
  IF handle THEN UNCHANGED <<dbClient, handle>>
  ELSE IF fault
       THEN \/ UNCHANGED <<dbClient, handle>>
            \/ dbClient' = "connected" /\ handle' \in BOOLEAN
       ELSE dbClient' = "connected" /\ handle' = TRUE

\* Time passes (up to the limit that bounds the model).
Tick(limit) ==
  /\ now < limit
  /\ now' = now + 1
  /\ UNCHANGED <<qCollection, ids, pc, item, budget, hist, removed, purged,
                 sent, dbClient, handle>>

\* send(): the document handed to insertOne
SendDoc(q, data, delayUntil, maxTries) ==
  [_id |-> [ts |-> now, n |-> Cardinality(ids) + 1], type |-> q.type,
   proc |-> SendProc(delayUntil), runs |-> SendRuns(q, maxTries), data |-> SendData(data)]

\* send(): the qItem returned, null when a failure occurs
SendResult(q, data, delayUntil, maxTries, fault) ==
  LET doc == SendDoc(q, data, delayUntil, maxTries)
  IN IF fault \/ ~Validates(doc) THEN None
     ELSE Some([QItem(doc) EXCEPT !.runs = SendRuns(q, maxTries)])

\* send(data, delayUntil, maxTries)
Send(q, data, delayUntil, maxTries, fault) ==
  /\ Cardinality(ids) < MaxItems
  /\ dbConnect(fault)
  /\ LET doc == SendDoc(q, data, delayUntil, maxTries)
     IN IF fault \/ ~Validates(doc)
        THEN UNCHANGED <<qCollection, ids, budget, sent>>
        ELSE /\ qCollection' = qCollection \cup {doc}
             /\ ids' = ids \cup {doc._id}
             /\ budget' = [budget EXCEPT ![doc._id.n] = doc.runs]
             /\ sent' = [sent EXCEPT ![doc._id.n] =
                           SendResult(q, data, delayUntil, maxTries, fault)]
  /\ UNCHANGED <<now, pc, item, hist, removed, purged>>

\* receive(processingTime) up to the answer of findOneAndUpdate: null is
\* returned at once, a qItem is held until ReceiveRemove / ReceiveReturn
ReceiveFind(p, q, processingTime, fault) ==
  /\ pc[p] = "idle"
  /\ dbConnect(fault)
  /\ LET lease == Lease(q, processingTime)
         found == FirstMatches(q.type, now)
     IN IF fault \/ found = {}
        THEN UNCHANGED <<qCollection, pc, item, hist>>
        ELSE \E d \in found :
               LET v == Updated(d, now, lease)
               IN IF ~Validates(v)
                  THEN UNCHANGED <<qCollection, pc, item, hist>>
                  ELSE /\ qCollection' = (qCollection \ {d}) \cup {v}
                       /\ item' = [item EXCEPT ![p] = Some(QItem(v))]
                       /\ hist' = [hist EXCEPT ![d._id.n] =
                                     Append(@, [now |-> now, lease |-> lease,
                                                before |-> d.proc, runs |-> v.runs,
                                                type |-> q.type])]
                       /\ pc' = [pc EXCEPT ![p] = IF NoMoreRuns(v) THEN "remove" ELSE "return"]
  /\ UNCHANGED <<now, ids, budget, removed, purged, sent>>

\* receive(): what the call can return at the answer of findOneAndUpdate:
\* null from the catch, null when nothing is available, the qItem otherwise
ReceiveResults(q, processingTime, fault) ==
  IF fault \/ FirstMatches(q.type, now) = {} THEN {None}
  ELSE {LET v == Updated(d, now, Lease(q, processingTime))
        IN IF Validates(v) THEN Some(QItem(v)) ELSE None : d \in FirstMatches(q.type, now)}

\* receive(): no more runs permitted, await this.remove(qItem)
ReceiveRemove(p, fault) ==
  /\ pc[p] = "remove"
  /\ pc' = [pc EXCEPT ![p] = "return"]
  /\ dbConnect(fault)
  /\ LET del == {d \in qCollection : d._id = item[p][1]._id}
     IN qCollection' = IF fault THEN qCollection ELSE qCollection \ del
  /\ UNCHANGED <<now, ids, item, budget, hist, removed, purged, sent>>

\* receive(): the qItem reaches the caller
ReceiveReturn(p) ==
  /\ pc[p] = "return"
  /\ pc' = [pc EXCEPT ![p] = "idle"]
  /\ item' = [item EXCEPT ![p] = None]
  /\ UNCHANGED <<now, qCollection, ids, budget, hist, removed, purged,
                 sent, dbClient, handle>>

\* Variant: the acknowledgement flag is returned for deletedCount.
RemoveResultOk(id, fault) == IF fault THEN None ELSE Some(1)

\* remove(): del.deletedCount, null when a failure occurs
RemoveResult(id, fault) ==
  IF fault THEN None ELSE Some(Cardinality({d \in qCollection : d._id = id}))

\* Variant: deleteOne with the filter { _id, type: this.type }.
RemoveOwnType(q, id, fault) ==
  /\ dbConnect(fault)
  /\ IF fault
     THEN UNCHANGED <<qCollection, removed>>
     ELSE /\ qCollection' = qCollection \ {d \in qCollection : d._id = id /\ d.type = q.type}
          /\ removed' = removed \cup {id.n}
  /\ UNCHANGED <<now, ids, pc, item, budget, hist, purged, sent>>

\* remove(qItem), called with a qItem that send() or receive() returned
Remove(q, id, fault) ==
  /\ dbConnect(fault)
  /\ IF fault
     THEN UNCHANGED <<qCollection, removed>>
     ELSE /\ qCollection' = qCollection \ {d \in qCollection : d._id = id}
          /\ removed' = removed \cup {id.n}
  /\ UNCHANGED <<now, ids, pc, item, budget, hist, purged, sent>>

\* purge(): del.deletedCount, null when a failure occurs
PurgeResult(q, fault) ==
  IF fault THEN None ELSE Some(Cardinality({d \in qCollection : d.type = q.type}))

\* Variant: deleteMany with the filter of receive(), visible documents only.
PurgeVisible(q, fault) ==
  /\ dbConnect(fault)
  /\ LET del == {d \in qCollection : Matches(d, q.type, now)}
     IN IF fault
        THEN UNCHANGED <<qCollection, purged>>
        ELSE /\ qCollection' = qCollection \ del
             /\ purged' = purged \cup {d._id.n : d \in del}
  /\ UNCHANGED <<now, ids, pc, item, budget, hist, removed, sent>>

\* purge()
Purge(q, fault) ==
  /\ dbConnect(fault)
  /\ LET del == {d \in qCollection : d.type = q.type}
     IN IF fault
        THEN UNCHANGED <<qCollection, purged>>
        ELSE /\ qCollection' = qCollection \ del
             /\ purged' = purged \cup {d._id.n : d \in del}
  /\ UNCHANGED <<now, ids, pc, item, budget, hist, removed, sent>>

\* count(): the number countDocuments answers, null when a failure occurs
CountResult(q, fault) == IF fault THEN None ELSE Some(CountDocuments(q.type))

\* count(): reads only
Count(q, fault) ==
  /\ dbConnect(fault)
  /\ UNCHANGED <<now, qCollection, ids, pc, item, budget, hist, removed, purged, sent>>

\* close(): undefined, null when a failure occurs
CloseResult(q, fault) == IF handle /\ fault THEN None ELSE Some("undefined")

\* Variant: dbClose() without the test of qCollection.
CloseUnguarded(q, fault) ==
  /\ dbClient' = IF fault THEN dbClient ELSE "closed"
  /\ UNCHANGED <<now, qCollection, ids, pc, item, budget, hist, removed, purged,
                 sent, handle>>

\* close(): dbClose() closes the shared client when a handle is held; the
\* handle itself stays set.  A close that throws may or may not have closed.
Close(q, fault) ==
  /\ IF ~handle THEN UNCHANGED dbClient
     ELSE IF fault THEN dbClient' \in {dbClient, "closed"}
     ELSE dbClient' = "closed"
  /\ UNCHANGED <<now, qCollection, ids, pc, item, budget, hist, removed, purged,
                 sent, handle>>

Next ==
  \/ Tick(MaxTime)
  \/ \E q \in Queues, delayUntil \in DelayArgs, maxTries \in MaxTriesArgs,
        fault \in BOOLEAN : Send(q, "test", delayUntil, maxTries, fault)
  \/ \E p \in Consumers, q \in Queues, fault \in BOOLEAN : ReceiveFind(p, q, None, fault)
  \/ \E p \in Consumers, fault \in BOOLEAN : ReceiveRemove(p, fault)
  \/ \E p \in Consumers : ReceiveReturn(p)
  \/ \E q \in Queues, id \in ids, fault \in BOOLEAN : Remove(q, id, fault)
  \/ \E q \in Queues, fault \in BOOLEAN : Purge(q, fault)
  \/ \E q \in Queues, fault \in BOOLEAN : Count(q, fault)

Spec == Init /\ [][Next]_vars

----------------------------------------------------------------------------
\* The specification with close(): every operation on the "test" queue, with
\* store faults, and either queue instance closing the shared connection at
\* any time.
CloseNext ==
  \/ Tick(MaxTime)
  \/ \E delayUntil \in DelayArgs, maxTries \in MaxTriesArgs, fault \in BOOLEAN :
       Send(queueTest, "test", delayUntil, maxTries, fault)
  \/ \E p \in Consumers, fault \in BOOLEAN : ReceiveFind(p, queueTest, None, fault)
  \/ \E p \in Consumers, fault \in BOOLEAN : ReceiveRemove(p, fault)
  \/ \E p \in Consumers : ReceiveReturn(p)
  \/ \E id \in ids, fault \in BOOLEAN : Remove(queueTest, id, fault)
  \/ \E fault \in BOOLEAN : Purge(queueTest, fault)
  \/ \E fault \in BOOLEAN : Count(queueTest, fault)
  \/ \E q \in Queues, fault \in BOOLEAN : Close(q, fault)

CloseSpec == Init /\ [][CloseNext]_vars

----------------------------------------------------------------------------
\* The fair specification: the "test" queue without store faults, where
\* nobody calls remove() or purge(), time keeps advancing and every consumer
\* keeps calling receive().

\* The clock runs on while a stored document is not yet visible again.
Horizon == IF \E d \in qCollection : d.proc >= now THEN now + 1 ELSE MaxTime

LiveNext ==
  \/ Tick(Horizon)
  \/ \E delayUntil \in DelayArgs, maxTries \in MaxTriesArgs :
       now < MaxTime /\ Send(queueTest, "test", delayUntil, maxTries, FALSE)
  \/ \E p \in Consumers : ReceiveFind(p, queueTest, None, FALSE)
  \/ \E p \in Consumers : ReceiveRemove(p, FALSE)
  \/ \E p \in Consumers : ReceiveReturn(p)

LiveSpec ==
  /\ Init
  /\ [][LiveNext]_vars
  /\ WF_vars(Tick(Horizon))
  /\ \A p \in Consumers : /\ WF_vars(ReceiveFind(p, queueTest, None, FALSE))
                          /\ WF_vars(ReceiveRemove(p, FALSE))
                          /\ WF_vars(ReceiveReturn(p))

----------------------------------------------------------------------------
\* The specification of the arguments: send() with every payload, delay and
\* maxTries of the wider sets, at most MaxArgItems times, and one consumer
\* calling receive() with every processingTime; remove() and purge(); the
\* only store fault is a throw of the delete of an exhausted item.
ArgNext ==
  \/ Tick(MaxTime)
  \/ \E q \in Queues, data \in Payloads, delayUntil \in ArgDelays, maxTries \in ArgMaxTries :
       Cardinality(ids) < MaxArgItems /\ Send(q, data, delayUntil, maxTries, FALSE)
  \/ \E q \in Queues, processingTime \in ArgProcessingTimes :
       ReceiveFind(1, q, processingTime, FALSE)
  \/ \E fault \in BOOLEAN : ReceiveRemove(1, fault)
  \/ ReceiveReturn(1)
  \/ \E q \in Queues, id \in ids : Remove(q, id, FALSE)
  \/ \E q \in Queues : Purge(q, FALSE)

ArgSpec == Init /\ [][ArgNext]_vars

----------------------------------------------------------------------------
\* The specification of the leftover: the "test" queue over a longer time,
\* one consumer, items sent without delay; the only store fault is a throw
\* of the delete of an exhausted item.
BlockNext ==
  \/ Tick(MaxBlockTime)
  \/ \E maxTries \in MaxTriesArgs :
       Send(queueTest, "test", [kind |-> "undefined", v |-> 0], maxTries, FALSE)
  \/ ReceiveFind(1, queueTest, None, FALSE)
  \/ \E fault \in BOOLEAN : ReceiveRemove(1, fault)
  \/ ReceiveReturn(1)

BlockSpec == Init /\ [][BlockNext]_vars

----------------------------------------------------------------------------
\* Shorthands of the properties.

\* The last claim of document n.
LastClaim(n) == hist[n][Len(hist[n])]

\* A receive() that found this document has not yet returned it.
Held(id) == \E p \in Consumers : item[p] # None /\ item[p][1]._id = id

\* The lease of the last claim of n is running and attempts remain.
InLease(n) ==
  /\ hist[n] # <<>>
  /\ LastClaim(n).runs > 0
  /\ now < LastClaim(n).now + LastClaim(n).lease

----------------------------------------------------------------------------
C2_BoundedRetries == \A n \in Ids : Len(hist[n]) <= budget[n]

\* C2 witness: an item that used up its runs is still stored (its delete
\* failed) and its lease has lapsed, so the filter matches it again.
C2_ExhaustedStillMatched ==
  \E d \in qCollection :
    /\ budget[d._id.n] >= 1
    /\ Len(hist[d._id.n]) = budget[d._id.n]
    /\ d.proc < now
    /\ ~Held(d._id)

\* C3, as stated: when receive() returns an item with runs 0, the item is no
\* longer stored.
C3_ExhaustedIsDeleted ==
  \A p \in Consumers :
    (pc[p] = "return" /\ item[p][1].runs = 0) => ~InStore(item[p][1]._id)

\* C4, as stated: the claims of an item inserted with k runs return runs
\* k-1, k-2, ..., 0 in that order, and once the claim with runs 0 has returned
\* the item is stored no longer (the next claim is empty, count() excludes it).
C4_RetrySequence ==
  \A id \in ids :
    /\ \A j \in 1..Len(hist[id.n]) : hist[id.n][j].runs = budget[id.n] - j
    /\ (hist[id.n] # <<>> /\ LastClaim(id.n).runs = 0 /\ ~Held(id)) =>
         /\ ~InStore(id)
         /\ \A q \in Queues : FirstMatches(q.type, now + 1) \cap {d \in qCollection : d._id = id} = {}

C8_FirstRemoveGivesOne ==
  [][\A q \in Queues, id \in ids :
       (/\ Remove(q, id, FALSE)
        /\ hist[id.n] # <<>> /\ ~Held(id)
        /\ id.n \notin removed /\ id.n \notin purged)
       => RemoveResult(id, FALSE) = Some(1)]_vars

\* C8, amended: remove() of an item a receive() returned gives 1 and deletes
\* it when it is still stored, 0 otherwise; once a remove() with that
\* reference was answered, a further one gives 0 and changes nothing.
C8_RemoveIdempotent ==
  /\ [](\A id \in ids : id.n \in removed => ~InStore(id) /\ RemoveResult(id, FALSE) = Some(0))
  /\ [][\A q \in Queues, id \in ids :
          Remove(q, id, FALSE) =>
            /\ InStore(id) => RemoveResult(id, FALSE) = Some(1)
            /\ ~InStore(id) => RemoveResult(id, FALSE) = Some(0) /\ qCollection' = qCollection
            /\ ~InStore(id)'
            /\ qCollection' = {d \in qCollection : d._id # id}]_vars

\* C8 witness: an item that a receive() returned with runs left was removed.
C8_Acknowledged ==
  \E id \in ids :
    /\ id.n \in removed /\ hist[id.n] # <<>> /\ LastClaim(id.n).runs > 0
    /\ ~InStore(id) /\ ~Held(id)

\* C9, as stated: remove() gives 1 for an item that is still stored and 0 for
\* the item returned by the receive() that used up its last run.
C9_RemoveCount ==
  \A id \in ids :
    /\ InStore(id) => RemoveResult(id, FALSE) = Some(1)
    /\ (hist[id.n] # <<>> /\ LastClaim(id.n).runs = 0 /\ ~Held(id))
         => RemoveResult(id, FALSE) = Some(0)

\* C10: a successful send() raises count() of its queue by exactly 1 at
\* once; count() is the number of stored items of the type, those not yet
\* visible (pending or leased) and those visible.
C10_SendCounts ==
  /\ [](\A q \in Queues :
          CountResult(q, FALSE) =
            Some(Cardinality({d \in qCollection : d.type = q.type /\ d.proc > now})
                 + Cardinality({d \in qCollection : d.type = q.type /\ d.proc <= now})))
  /\ [][\A q \in Queues, delayUntil \in DelayArgs, maxTries \in MaxTriesArgs :
          (/\ Send(q, "test", delayUntil, maxTries, FALSE)
           /\ SendResult(q, "test", delayUntil, maxTries, FALSE) # None)
          => \E c \in 0..MaxItems :
               /\ CountResult(q, FALSE) = Some(c)
               /\ CountResult(q, FALSE)' = Some(c + 1)]_vars

\* C10 witness: a queue holds an item that is not yet visible and was never
\* claimed, and count() includes it.
C10_PendingCounted ==
  \E d \in qCollection, q \in Queues :
    /\ q.type = d.type /\ d.proc > now /\ hist[d._id.n] = <<>>
    /\ CountResult(q, FALSE) = Some(2)

\* C11: purge() deletes every stored item of the queue's type, whatever its
\* proc and runs, returns the number count() gave just before it, and count()
\* is 0 right after it.
C11_PurgeAll ==
  [][\A q \in Queues :
       Purge(q, FALSE) =>
         /\ PurgeResult(q, FALSE) = CountResult(q, FALSE)
         /\ PurgeResult(q, FALSE) # None
         /\ CountResult(q, FALSE)' = Some(0)
         /\ \A d \in qCollection' : d.type # q.type]_vars

\* C11 witness: purge() has deleted an item that was never claimed, at the
\* instant it was sent, and an item whose lease was running.
C11_PurgedPendingAndLeased ==
  \E i, j \in ids :
    /\ i.n \in purged /\ hist[i.n] = <<>> /\ i.ts = now
    /\ j.n \in purged /\ hist[j.n] # <<>> /\ LastClaim(j.n).runs > 0
    /\ now < LastClaim(j.n).now + LastClaim(j.n).lease
    /\ qCollection = {}

\* C12: receive(), purge() and count() of one queue never return, change,
\* delete or count a document of another type, so the items of the other
\* queue stay as they are and remain claimable from it.
C12_QueueIndependence ==
  /\ [](\A d \in qCollection : \A j \in 1..Len(hist[d._id.n]) :
          hist[d._id.n][j].type = d.type)
  /\ [](\E a, b \in 0..MaxItems :
          /\ CountResult(queueDefault, FALSE) = Some(a)
          /\ CountResult(queueTest, FALSE) = Some(b)
          /\ a + b = Cardinality(qCollection))
  /\ [][qCollection' # qCollection =>
          \A p \in Consumers, q \in Queues, fault \in BOOLEAN :
            (ReceiveFind(p, q, None, fault) \/ Purge(q, fault) \/ Count(q, fault))
            => {d \in qCollection' : d.type # q.type} = {d \in qCollection : d.type # q.type}]_vars
  /\ [][qCollection' # qCollection =>
          \A p \in Consumers, fault \in BOOLEAN :
            ReceiveRemove(p, fault)
            => /\ qCollection' \subseteq qCollection
               /\ \A d \in qCollection \ qCollection' :
                    d._id = item[p][1]._id /\ d.type = LastClaim(d._id.n).type]_vars

\* C12 witness: an item of one queue, sent first, is stored unclaimed and
\* claimable after an item of the other queue was claimed and purged.
C12_OtherQueueUntouched ==
  \E d \in qCollection, n \in purged :
    /\ n > d._id.n /\ hist[n] # <<>> /\ hist[n][1].type # d.type
    /\ hist[d._id.n] = <<>> /\ d.runs >= 1
    /\ d \in FirstMatches(d.type, now)

C14_OverrideAlways ==
  [][\A q \in Queues, data \in Payloads, delayUntil \in ArgDelays, maxTries \in ArgMaxTries :
       (Send(q, data, delayUntil, maxTries, FALSE) /\ (maxTries = None \/ maxTries[1] >= 0))
       => LET r == SendResult(q, data, delayUntil, maxTries, FALSE)
              m == IF maxTries = None THEN q.maxTries ELSE maxTries[1]
          IN /\ r # None /\ r[1].runs = m
             /\ \E d \in qCollection' \ qCollection : d.runs = m]_vars

\* C14, amended: send() stores and returns runs equal to the maxTries passed
\* when it is 1 or more, and equal to the queue's maxTries when none or 0 is
\* passed; with a negative maxTries send() returns null and stores nothing.
C14_OverrideNonZero ==
  /\ [](\A q \in Queues, data \in Payloads, delayUntil \in ArgDelays, maxTries \in ArgMaxTries :
          LET r == SendResult(q, data, delayUntil, maxTries, FALSE)
              m == IF maxTries = None \/ maxTries[1] = 0 THEN q.maxTries ELSE maxTries[1]
          IN IF m < 0 THEN r = None ELSE r # None /\ r[1].runs = m)
  /\ [][\A q \in Queues, maxTries \in ArgMaxTries :
          LET m == IF maxTries = None \/ maxTries[1] = 0 THEN q.maxTries ELSE maxTries[1]
          IN IF m < 0
             THEN \A data \in Payloads, delayUntil \in ArgDelays :
                    Send(q, data, delayUntil, maxTries, FALSE)
                    => qCollection' = qCollection /\ ids' = ids
             ELSE ids' # ids =>
                    \A data \in Payloads, delayUntil \in ArgDelays :
                      Send(q, data, delayUntil, maxTries, FALSE)
                      => \E d \in qCollection' \ qCollection :
                           d.runs = m /\ qCollection' = qCollection \cup {d}]_vars

\* C14 witness: an item is stored with the runs of an override that differs
\* from the maxTries of its queue.
C14_OverrideStored ==
  \E d \in qCollection, q \in Queues :
    /\ d.type = q.type /\ hist[d._id.n] = <<>>
    /\ d.runs = 1 /\ d.runs # q.maxTries
    /\ sent[d._id.n] # None /\ sent[d._id.n][1].runs = 1

\* C15: send() stores the new item with proc equal to the Date passed as
\* delayUntil, to the time of the send plus delayUntil seconds when a number
\* is passed, and to the time of the send when nothing is passed.
C15_VisibleAt ==
  [][ids' # ids =>
       \A q \in Queues, data \in Payloads, delayUntil \in ArgDelays, maxTries \in ArgMaxTries :
         Send(q, data, delayUntil, maxTries, FALSE)
         => \E d \in qCollection' \ qCollection :
              /\ d._id.ts = now
              /\ delayUntil.kind = "Date" => d.proc = delayUntil.v
              /\ delayUntil.kind = "number" => d.proc = now + delayUntil.v
              /\ delayUntil.kind = "undefined" => d.proc = now]_vars

\* C15 witness: an item sent with a Date that lies in the past is stored with
\* that Date as its proc.
C15_AbsoluteStored ==
  \E d \in qCollection :
    d._id.ts = MaxTime /\ d.proc = 0 /\ hist[d._id.n] = <<>>

\* C16, as stated: an operation in which a store call throws returns null,
\* and an operation that returns null leaves the stored documents as they
\* were.
C16_FaultGivesNull ==
  [][/\ \A q \in Queues, delayUntil \in DelayArgs, maxTries \in MaxTriesArgs, fault \in BOOLEAN :
          /\ Send(q, "test", delayUntil, maxTries, TRUE)
               => SendResult(q, "test", delayUntil, maxTries, TRUE) = None
          /\ (/\ Send(q, "test", delayUntil, maxTries, fault)
              /\ SendResult(q, "test", delayUntil, maxTries, fault) = None)
               => qCollection' = qCollection
     /\ \A p \in Consumers, q \in Queues, fault \in BOOLEAN :
          /\ ReceiveFind(p, q, None, TRUE) => item'[p] = None
          /\ (ReceiveFind(p, q, None, fault) /\ item'[p] = None)
               => qCollection' = qCollection
          /\ (ReceiveRemove(p, TRUE) /\ ~ReceiveRemove(p, FALSE)) => item'[p] = None
     /\ \A q \in Queues, id \in ids, fault \in BOOLEAN :
          /\ Remove(q, id, TRUE) => RemoveResult(id, TRUE) = None
          /\ (Remove(q, id, fault) /\ RemoveResult(id, fault) = None)
               => qCollection' = qCollection
     /\ \A q \in Queues, fault \in BOOLEAN :
          /\ Purge(q, TRUE) => PurgeResult(q, TRUE) = None
          /\ (Purge(q, fault) /\ PurgeResult(q, fault) = None) => qCollection' = qCollection
          /\ Count(q, TRUE) => CountResult(q, TRUE) = None
          /\ (Count(q, fault) /\ CountResult(q, fault) = None) => qCollection' = qCollection
          /\ (Close(q, TRUE) /\ handle) => CloseResult(q, TRUE) = None
          /\ (Close(q, fault) /\ CloseResult(q, fault) = None)
               => qCollection' = qCollection]_vars

\* C18: close() does nothing when the module holds no handle; otherwise it
\* closes the one client shared by all queue instances and touches nothing
\* else; a close() of a closed client changes nothing; the step is the same
\* whichever queue instance calls it.
C18_CloseShared ==
  [][\A q \in Queues :
       Close(q, FALSE) =>
         /\ ~handle => UNCHANGED vars
         /\ handle => dbClient' = "closed"
         /\ dbClient = "closed" => UNCHANGED vars
         /\ UNCHANGED <<now, qCollection, ids, pc, item, budget, hist, removed, purged,
                        sent, handle>>
         /\ \A r \in Queues : Close(r, FALSE)]_vars

\* C18 witness: the client was closed while items are stored and a receive()
\* is in progress.
C18_Closed ==
  /\ dbClient = "closed" /\ handle
  /\ qCollection # {}
  /\ \E p \in Consumers : pc[p] # "idle"

\* C17, as stated: with no item of its type visible, receive() returns an
\* empty result, leaves the collection unchanged, and that result differs
\* from the one it returns when the store call throws.
C17_EmptyIsDistinct ==
  \A q \in Queues :
    (\A d \in qCollection : d.type = q.type => d.proc > now)
    => /\ ReceiveResults(q, None, FALSE) = {None}
       /\ ReceiveResults(q, None, FALSE) \cap ReceiveResults(q, None, TRUE) = {}

\* C17, amended: with no item of its type visible, receive() returns null
\* and leaves the collection unchanged; null is also what it returns when the
\* store call throws.
C17_EmptyIsNull ==
  /\ [](\A q \in Queues :
          (\A d \in qCollection : d.type = q.type => d.proc > now)
          => /\ ReceiveResults(q, None, FALSE) = {None}
             /\ ReceiveResults(q, None, TRUE) = ReceiveResults(q, None, FALSE))
  /\ [][\A p \in Consumers, q \in Queues :
          (/\ ReceiveFind(p, q, None, FALSE)
           /\ \A d \in qCollection : d.type = q.type => d.proc > now)
          => /\ item'[p] = None /\ pc'[p] = "idle"
             /\ qCollection' = qCollection]_vars

\* C17 witness: a queue whose items are all invisible, one leased and one
\* not yet claimed, while the other queue is empty and the client connected.
C17_NothingVisible ==
  \E d, e \in qCollection :
    /\ d.type = e.type /\ d.proc > now /\ e.proc > now
    /\ hist[d._id.n] # <<>> /\ hist[e._id.n] = <<>>
    /\ handle /\ \A p \in Consumers : pc[p] = "idle"

\* C19, as stated: a receive() made at the very time that is the proc of the
\* only item of its queue (an item with runs left) returns that item, not
\* null.
C19_BoundaryClaimed ==
  \A q \in Queues, d \in qCollection :
    (/\ {e \in qCollection : e.type = q.type} = {d}
     /\ d.proc = now /\ d.runs >= 1)
    => \A r \in ReceiveResults(q, None, FALSE) : r # None /\ r[1]._id = d._id

C21_LeaseClamp ==
  [][hist' # hist =>
       \A p \in Consumers, q \in Queues, processingTime \in ArgProcessingTimes :
         (ReceiveFind(p, q, processingTime, FALSE) /\ item'[p] # None)
         => \E v \in qCollection' :
              /\ v._id = item'[p][1]._id
              /\ v.proc >= now + 1
              /\ v.proc = now + Max(1, IF processingTime = None THEN q.processingTime
                                       ELSE processingTime[1])]_vars

\* C22: the proc of a stored document never decreases: the receive() that
\* returns it sets a proc strictly greater than the one it replaces, and no
\* other step changes it.
C22_VisibleAtGrows ==
  [][qCollection' # qCollection =>
       \A d \in qCollection, e \in qCollection' :
         e._id = d._id
         => /\ e.proc >= d.proc
            /\ hist'[d._id.n] # hist[d._id.n] => e.proc > d.proc
            /\ e.proc # d.proc
                 => /\ Len(hist'[d._id.n]) = Len(hist[d._id.n]) + 1
                    /\ \E p \in Consumers :
                         /\ item[p] = None /\ item'[p] # None
                         /\ item'[p][1]._id = d._id]_vars

\* C22 witness: an item of the default queue was claimed twice, the second
\* time with a negative processingTime, and its proc grew each time.
C22_GrewTwice ==
  \E d \in qCollection :
    /\ d.type = "DEFAULT" /\ Len(hist[d._id.n]) = 2
    /\ hist[d._id.n][2].lease = 1
    /\ hist[d._id.n][1].before < hist[d._id.n][2].before
    /\ hist[d._id.n][2].before < d.proc

\* C23: the item a receive() returns had the smallest proc of the items of
\* the queue's type with proc not after now; hence of two items of a queue,
\* the one sent first with the smaller proc is never left unclaimed while the
\* other is claimed.
C23_SmallestFirst ==
  /\ [][hist' # hist =>
          \A p \in Consumers, q \in Queues :
            (ReceiveFind(p, q, None, FALSE) /\ item'[p] # None)
            => \E d \in qCollection :
                 /\ d._id = item'[p][1]._id /\ d.type = q.type
                 /\ \A e \in qCollection :
                      (e.type = q.type /\ e.proc <= now) => d.proc <= e.proc]_vars
  /\ [](\A d \in qCollection, j \in ids :
          (/\ d._id.n < j.n /\ hist[d._id.n] = <<>>
           /\ hist[j.n] # <<>> /\ hist[j.n][1].type = d.type)
          => hist[j.n][1].before <= d.proc)

\* C23 witness: two items sent with no delay one after the other to one queue
\* were both visible at the first claim and were claimed in the order sent.
C23_ClaimedInOrder ==
  \E i, j \in ids :
    /\ i.ts < j.ts /\ hist[i.n] # <<>> /\ hist[j.n] # <<>>
    /\ hist[i.n][1].type = hist[j.n][1].type
    /\ hist[i.n][1].before = i.ts /\ hist[j.n][1].before = j.ts
    /\ j.ts < hist[i.n][1].now
    /\ hist[i.n][1].now <= hist[j.n][1].now

\* C24: every stored document has runs >= 0, whatever maxTries send() is
\* given and whatever claims, removals, purges, lapses of the lease and
\* faults of the delete follow; a document left with runs 0 is never claimed
\* or decremented again.
C24_RunsNeverNegative ==
  /\ [](\A d \in qCollection : d.runs >= 0)
  /\ [][qCollection' # qCollection =>
          \A d \in qCollection, e \in qCollection' :
            (e._id = d._id /\ d.runs = 0)
            => e = d /\ hist'[d._id.n] = hist[d._id.n]]_vars

\* C24 witness: a document left with runs 0 by a delete that threw is stored,
\* its lease has lapsed and no receive() is in progress.
C24_LeftoverLapsed ==
  \E d \in qCollection :
    /\ d.runs = 0 /\ d.proc < now /\ hist[d._id.n] # <<>>
    /\ \A p \in Consumers : pc[p] = "idle"

\* C25, as stated: remove(qItem) of a queue deletes only a document of that
\* queue's type; for the qItem of a document of another type it returns 0,
\* deletes nothing and leaves the count of the other queue as it was.
C25_RemoveOwnTypeOnly ==
  /\ [](\A d \in qCollection, q \in Queues :
          d.type # q.type => RemoveResult(d._id, FALSE) = Some(0))
  /\ [][qCollection' # qCollection =>
          \A q \in Queues, id \in ids :
            Remove(q, id, FALSE)
            => /\ \A d \in qCollection \ qCollection' : d.type = q.type
               /\ \A r \in Queues :
                    r.type # q.type => CountResult(r, FALSE)' = CountResult(r, FALSE)]_vars

\* C25, amended: remove(qItem) deletes the document with that _id whatever
\* its type and whichever queue instance is called: it returns 1, only that
\* document goes, and the count of the document's queue goes down by 1.
C25_RemoveById ==
  /\ [](\A d \in qCollection : RemoveResult(d._id, FALSE) = Some(1))
  /\ [][qCollection' # qCollection =>
          \A q \in Queues, id \in ids :
            Remove(q, id, FALSE)
            => /\ qCollection' = {d \in qCollection : d._id # id}
               /\ \A r \in Queues : Remove(r, id, FALSE)
               /\ \A d \in qCollection \ qCollection', r \in Queues, c \in 0..MaxItems :
                    (d.type = r.type /\ CountResult(r, FALSE)' = Some(c))
                    => CountResult(r, FALSE) = Some(c + 1)]_vars

\* C25 witness: an item of the default queue that a receive() returned with
\* runs left was removed, and an item of the test queue is stored.
C25_RemovedBesideOther ==
  \E id \in ids, d \in qCollection :
    /\ id.n \in removed /\ ~InStore(id) /\ id.n \notin purged
    /\ hist[id.n] # <<>> /\ LastClaim(id.n).runs > 0
    /\ hist[id.n][1].type = "DEFAULT" /\ d.type = "test"

\* C26, as stated: while a document left with runs 0 is stored, its lease
\* lapsed, and another item of its type with runs left is visible, receive()
\* on that queue does not just return null.
C26_LeftoverDoesNotBlock ==
  \A q \in Queues, d \in qCollection, e \in qCollection :
    (/\ d.type = q.type /\ d.runs = 0 /\ d.proc < now /\ ~Held(d._id)
     /\ e.type = q.type /\ e.runs >= 1 /\ e.proc < now)
    => ReceiveResults(q, None, FALSE) # {None}

====
